---- MODULE Spec2Model ----
(***************************************************************************)
(* Model of the asm_register record store: data_io.py (ensure_schema,      *)
(* load_df, save_df) and service.py (register_participant, checkin_bulk,   *)
(* import_block, dedupe_existing_on_name_district), called by concurrent   *)
(* sessions that share one Excel file behind a FileLock.                   *)
(*                                                                         *)
(* Text is a sequence of one-character strings, so that strip(), lower()   *)
(* and the "|" concatenation of the key are computed, not assumed.         *)
(***************************************************************************)
EXTENDS Integers, Sequences, FiniteSets, TLC

\* ------------------------------------------------------------------ bounds
NSessions == 2
\* operations the sessions may start in all: Spec and SpecSeq, the deeper
\* SpecDeep, the deeper sequential SpecSeqDeep
MaxOps == 2
DeepOps == 3
SeqDeepOps == 4
\* rows of the tables that are summarised
MaxRows == 4
\* rows of the tables handed to ensure_schema
MaxCells == 2

Sessions == 1..NSessions

\* ------------------------------------------------------------------ text
\* A missing cell (NaN) of a dataframe.
NaN == <<"NaN">>

\* str.strip(): leading and trailing blanks removed.
RECURSIVE LStrip(_)
LStrip(s) == IF s # <<>> /\ Head(s) = " " THEN LStrip(Tail(s)) ELSE s

RECURSIVE RStrip(_)
RStrip(s) ==
  IF s # <<>> /\ s[Len(s)] = " " THEN RStrip(SubSeq(s, 1, Len(s) - 1)) ELSE s

Strip(s) == RStrip(LStrip(s))

\* str.lower() on the letters the inputs use.
LowerChar(c) ==
  CASE c = "A" -> "a" [] c = "N" -> "n" [] c = "Y" -> "y" [] c = "E" -> "e"
    [] c = "S" -> "s" [] c = "T" -> "t" [] c = "F" -> "f" [] OTHER -> c

Lower(s) == [i \in 1..Len(s) |-> LowerChar(s[i])]

\* Series.astype(str): a missing cell becomes the text "nan".
AsStr(c) == IF c = NaN THEN <<"n", "a", "n">> ELSE c

\* _norm(s): s.astype(str).str.strip().str.lower()
Norm(c) == Lower(Strip(AsStr(c)))

\* _make_key(name, district)
MakeKey(name, district) == Lower(Strip(AsStr(name))) \o <<"|">> \o Lower(Strip(AsStr(district)))

\* import_block._series_key, for one row
SeriesKey(r) == Lower(Strip(AsStr(r.name))) \o <<"|">> \o Lower(Strip(AsStr(r.district)))

\* ------------------------------------------------------------------ tables
\* pandas.read_excel with its default na_values: these cell texts are read
\* back as missing cells, like an empty cell.
NAStrings == {<<>>, <<"N", "A">>, <<"n", "a", "n">>}

ReadCell(c) == IF c = NaN \/ c \in NAStrings THEN NaN ELSE c

\* pd.read_excel(EXCEL_FILE): every text cell goes through the NA filter.
ReadExcel(rows) ==
  [i \in 1..Len(rows) |->
     [rows[i] EXCEPT !.name = ReadCell(@), !.coop = ReadCell(@),
                     !.district = ReadCell(@), !.province = ReadCell(@),
                     !.sig = ReadCell(@)]]

\* ensure_schema on a table that has the canonical columns, whole numbers in
\* NO. (to_numeric keeps them) and attendance cells cast with astype(bool).
EnsureSchema(rows) ==
  [i \in 1..Len(rows) |->
     [rows[i] EXCEPT !.d1 = (@ = TRUE), !.d2 = (@ = TRUE)]]

\* DataFrame.to_excel: a missing cell and an empty text are both written as
\* an empty cell.
WriteCell(c) == IF c = <<>> THEN NaN ELSE c

ToExcel(rows) ==
  [i \in 1..Len(rows) |->
     [rows[i] EXCEPT !.name = WriteCell(@), !.coop = WriteCell(@),
                     !.district = WriteCell(@), !.province = WriteCell(@),
                     !.sig = WriteCell(@)]]

RECURSIVE MaxNo(_)
\* df["NO."].max(), 0 when the table has no number
MaxNo(rows) ==
  IF rows = <<>> THEN 0
  ELSE LET m == MaxNo(Tail(rows)) IN IF Head(rows).no > m THEN Head(rows).no ELSE m

\* ------------------------------------------------------------------ state
VARIABLES
  file,      \* the Excel file: [kind: "none" | "table" | "partial", rows]
  lock,      \* the FileLock: 0 when free, else the session holding it
  pc,        \* each session's position in its current operation
  op,        \* each session's current (or last) operation and arguments
  df,        \* each session's dataframe
  result,    \* what each session's operation returns
  opsLeft,   \* operations that may still be started
  issued     \* history: the sequence numbers of the records written so far

vars == <<file, lock, pc, op, df, result, opsLeft, issued>>

NoOp == [kind |-> "none", name |-> <<>>, coop |-> <<>>, district |-> <<>>,
         province |-> <<>>, ids |-> <<>>, day |-> 0, batch |-> <<>>]

NoResult == [status |-> "none", ok |-> FALSE, added |-> <<>>, counts |-> <<0, 0, 0>>]

\* no file yet, no session inside an operation
Idle ==
  /\ file = [kind |-> "none", rows |-> <<>>]
  /\ lock = 0
  /\ pc = [s \in Sessions |-> "idle"]
  /\ op = [s \in Sessions |-> NoOp]
  /\ df = [s \in Sessions |-> <<>>]
  /\ result = [s \in Sessions |-> NoResult]
  /\ issued = {}

Init == Idle /\ opsLeft = MaxOps

InitDeep == Idle /\ opsLeft = DeepOps

InitSeqDeep == Idle /\ opsLeft = SeqDeepOps

\* ------------------------------------------------------------------ load_df
\* (variant: the lock file is never looked at)
LockFreeIgnored == TRUE

\* FileLock's acquire waits until no other holder has the lock file
LockFree == lock = 0

\* with FileLock(...): entering the block of load_df
LoadAcquire(s) ==
  /\ pc[s] = "load_acq"
  /\ LockFree
  /\ lock' = s
  /\ pc' = [pc EXCEPT ![s] = "load_read"]
  /\ UNCHANGED <<file, op, df, result, opsLeft, issued>>

\* (variant: a load that finds no workbook writes an empty one)
AfterLoadCreated(f) == IF f.kind = "none" THEN [kind |-> "table", rows |-> <<>>] ELSE f

\* the workbook after load_df: it is only looked for and read, lines 59-62
AfterLoad(f) == f

\* the body of load_df (and get_df's second ensure_schema)
LoadRead(s) ==
  /\ pc[s] = "load_read"
  /\ file.kind # "partial"
  /\ df' = [df EXCEPT ![s] =
              IF file.kind = "none" THEN <<>>
              ELSE EnsureSchema(EnsureSchema(ReadExcel(file.rows)))]
  /\ file' = AfterLoad(file)
  /\ pc' = [pc EXCEPT ![s] = "load_rel"]
  /\ UNCHANGED <<lock, op, result, opsLeft, issued>>

\* read_excel raises on a file that is not a complete workbook
LoadFail(s) ==
  /\ pc[s] = "load_read"
  /\ file.kind = "partial"
  /\ pc' = [pc EXCEPT ![s] = "load_err"]
  /\ UNCHANGED <<file, lock, op, df, result, opsLeft, issued>>

\* (variant: the lock stays with the session that leaves the block)
KeptOnExit(s) == s

\* FileLock.__exit__ at the end of the with block: the lock is free
AfterExit(s) == 0

\* (variant: an exception leaves the lock with the session)
KeptOnErrorExit(s) == s

\* FileLock.__exit__ when the with block is left by an exception
AfterErrorExit(s) == 0

\* leaving the with block of load_df
LoadRelease(s) ==
  /\ pc[s] = "load_rel"
  /\ lock' = AfterExit(s)
  /\ pc' = [pc EXCEPT ![s] = "decide"]
  /\ UNCHANGED <<file, op, df, result, opsLeft, issued>>

\* leaving the with block of load_df by the exception: the operation ends
LoadErrRelease(s) ==
  /\ pc[s] = "load_err"
  /\ lock' = AfterErrorExit(s)
  /\ pc' = [pc EXCEPT ![s] = "done"]
  /\ result' = [result EXCEPT ![s] = [NoResult EXCEPT !.status = "raised"]]
  /\ df' = [df EXCEPT ![s] = <<>>]
  /\ UNCHANGED <<file, op, opsLeft, issued>>

\* ------------------------------------------------------------------ save_df
SaveAcquire(s) ==
  /\ pc[s] = "save_acq"
  /\ LockFree
  /\ lock' = s
  /\ pc' = [pc EXCEPT ![s] = "save_write"]
  /\ UNCHANGED <<file, op, df, result, opsLeft, issued>>

\* the sequence numbers of the rows the session's operation has appended
AddedNos(s) == {result[s].added[i].no : i \in 1..Len(result[s].added)}

\* ensure_schema(df).to_excel(EXCEL_FILE): the workbook is written
SaveWrite(s) ==
  /\ pc[s] = "save_write"
  /\ file' = [kind |-> "table", rows |-> ToExcel(EnsureSchema(df[s]))]
  /\ pc' = [pc EXCEPT ![s] = "save_rel"]
  /\ issued' = issued \cup AddedNos(s)
  /\ UNCHANGED <<lock, op, df, result, opsLeft>>

\* to_excel raises before it has opened the file for writing
SaveFailEarly(s) ==
  /\ pc[s] = "save_write"
  /\ pc' = [pc EXCEPT ![s] = "save_err"]
  /\ UNCHANGED <<file, lock, op, df, result, opsLeft, issued>>

\* to_excel raises after it has opened (truncated) the file, which it
\* writes in place
SaveFailLate(s) ==
  /\ pc[s] = "save_write"
  /\ file' = [kind |-> "partial", rows |-> <<>>]
  /\ pc' = [pc EXCEPT ![s] = "save_err"]
  /\ UNCHANGED <<lock, op, df, result, opsLeft, issued>>

\* leaving the with block of save_df: the operation returns its result
SaveRelease(s) ==
  /\ pc[s] = "save_rel"
  /\ lock' = AfterExit(s)
  /\ pc' = [pc EXCEPT ![s] = "done"]
  /\ result' = [result EXCEPT ![s].status = "returned"]
  /\ df' = [df EXCEPT ![s] = <<>>]
  /\ UNCHANGED <<file, op, opsLeft, issued>>

\* leaving the with block of save_df by the exception
SaveErrRelease(s) ==
  /\ pc[s] = "save_err"
  /\ lock' = AfterErrorExit(s)
  /\ pc' = [pc EXCEPT ![s] = "done"]
  /\ result' = [result EXCEPT ![s] = [NoResult EXCEPT !.status = "raised"]]
  /\ df' = [df EXCEPT ![s] = <<>>]
  /\ UNCHANGED <<file, op, opsLeft, issued>>

\* ------------------------------------------------------------------ register
RegInputs ==
  { [name |-> <<"a", "|">>, coop |-> <<>>, district |-> <<"a">>, province |-> <<"p">>],
    [name |-> <<"a">>, coop |-> <<>>, district |-> <<"|", "a">>, province |-> <<"p">>],
    [name |-> <<" ", "A">>, coop |-> <<>>, district |-> <<"|", "a">>,
     province |-> <<"p">>],
    [name |-> <<"N", "A">>, coop |-> <<>>, district |-> <<"a">>, province |-> <<"p">>],
    [name |-> <<" ">>, coop |-> <<>>, district |-> <<"a">>, province |-> <<"p">>] }

CanStart(s) == pc[s] \in {"idle", "done"} /\ opsLeft > 0

\* (variant: only the name is required)
NameMissing(in) == Strip(in.name) = <<>>

\* the test of line 94: a required field is empty after strip()
RequiredMissing(in) ==
  Strip(in.name) = <<>> \/ Strip(in.district) = <<>> \/ Strip(in.province) = <<>>

\* register_participant, lines 92-95: validation, before any load
StartRegister(s, in) ==
  /\ CanStart(s)
  /\ opsLeft' = opsLeft - 1
  /\ op' = [op EXCEPT ![s] = [NoOp EXCEPT !.kind = "register", !.name = in.name,
                                           !.coop = in.coop,
                                           !.district = in.district,
                                           !.province = in.province]]
  /\ IF RequiredMissing(in)
     THEN /\ pc' = [pc EXCEPT ![s] = "done"]
          /\ result' = [result EXCEPT ![s] =
                          [NoResult EXCEPT !.status = "returned", !.ok = FALSE]]
     ELSE /\ pc' = [pc EXCEPT ![s] = "load_acq"]
          /\ result' = [result EXCEPT ![s] = NoResult]
  /\ UNCHANGED <<file, lock, df, issued>>

\* the duplicate test of register_participant, line 98
IsRegistered(rows, name, district) ==
  \E i \in 1..Len(rows) :
    /\ Norm(rows[i].name) = Lower(Strip(name))
    /\ Norm(rows[i].district) = Lower(Strip(district))

\* (variant: the new row takes the current maximum itself)
NextNoOffByOne(rows) == MaxNo(rows)

\* max_no + 1, lines 101-103
NextNo(rows) == MaxNo(rows) + 1

\* (variant: the fields are stored as typed)
NewRowUntrimmed(rows, o) ==
  [no |-> NextNo(rows), name |-> o.name, coop |-> o.coop,
   district |-> o.district, province |-> o.province,
   d1 |-> FALSE, d2 |-> FALSE, sig |-> <<>>]

\* the row of lines 102-112 (Registered_On, the time of the call, left out)
NewRow(rows, o) ==
  [no |-> NextNo(rows), name |-> Strip(o.name), coop |-> Strip(o.coop),
   district |-> Strip(o.district), province |-> Strip(o.province),
   d1 |-> FALSE, d2 |-> FALSE, sig |-> <<>>]

\* register_participant, lines 98-113: the duplicate test and the append
RegisterDecide(s) ==
  /\ pc[s] = "decide"
  /\ op[s].kind = "register"
  /\ IF IsRegistered(df[s], op[s].name, op[s].district)
     THEN /\ pc' = [pc EXCEPT ![s] = "done"]
          /\ result' = [result EXCEPT ![s] =
                          [NoResult EXCEPT !.status = "returned", !.ok = FALSE]]
          /\ df' = [df EXCEPT ![s] = <<>>]
     ELSE /\ pc' = [pc EXCEPT ![s] = "save_acq"]
          /\ df' = [df EXCEPT ![s] = Append(@, NewRow(@, op[s]))]
          /\ result' = [result EXCEPT ![s] =
                          [NoResult EXCEPT !.status = "pending", !.ok = TRUE,
                                           !.added = <<NewRow(df[s], op[s])>>]]
  /\ UNCHANGED <<file, lock, op, opsLeft, issued>>

\* ------------------------------------------------------------------ checkin
\* the ids lists and days the sessions call checkin_bulk with
IdsInputs == {<<1>>}
Days == {1, 2}

Flag(r, day) == IF day = 1 THEN r.d1 ELSE r.d2

\* (variant: the flag is not written)
SetFlagSkipped(r, day) == r

\* df.loc[mask, col] = True, line 133
SetFlag(r, day) == IF day = 1 THEN [r EXCEPT !.d1 = TRUE] ELSE [r EXCEPT !.d2 = TRUE]

Min(S) == CHOOSE x \in S : \A y \in S : x <= y

\* (variant: a number selects every record up to it)
IdAtMost(r, pid) == r.no <= pid

\* mask = df["NO."] == pid, line 126, for one row
IdMatches(r, pid) == r.no = pid

RECURSIVE CheckinLoop(_, _, _, _)
\* the for loop of checkin_bulk, lines 125-134; counts = <<updated, already,
\* not_found>>
CheckinLoop(rows, ids, day, counts) ==
  IF ids = <<>> THEN [rows |-> rows, counts |-> counts]
  ELSE LET mask == {i \in 1..Len(rows) : IdMatches(rows[i], Head(ids))} IN
       IF mask = {}
       THEN CheckinLoop(rows, Tail(ids), day, [counts EXCEPT ![3] = @ + 1])
       ELSE IF Flag(rows[Min(mask)], day)
       THEN CheckinLoop(rows, Tail(ids), day, [counts EXCEPT ![2] = @ + 1])
       ELSE CheckinLoop([i \in 1..Len(rows) |->
                           IF i \in mask THEN SetFlag(rows[i], day) ELSE rows[i]],
                        Tail(ids), day, [counts EXCEPT ![1] = @ + 1])

\* (variant: any day is let through)
ValidDayAny(day) == TRUE

\* the assert of line 120
ValidDay(day) == day \in {1, 2}

\* (variant: the table is saved whatever the count)
UpdatedAlways(counts) == TRUE

\* if updated:, line 136
Updated(counts) == counts[1] > 0

\* checkin_bulk, line 120: the assert on day, before any load
StartCheckin(s, ids, day) ==
  /\ CanStart(s)
  /\ opsLeft' = opsLeft - 1
  /\ op' = [op EXCEPT ![s] = [NoOp EXCEPT !.kind = "checkin", !.ids = ids, !.day = day]]
  /\ IF ValidDay(day)
     THEN /\ pc' = [pc EXCEPT ![s] = "load_acq"]
          /\ result' = [result EXCEPT ![s] = NoResult]
     ELSE /\ pc' = [pc EXCEPT ![s] = "done"]
          /\ result' = [result EXCEPT ![s] = [NoResult EXCEPT !.status = "raised"]]
  /\ UNCHANGED <<file, lock, df, issued>>

\* checkin_bulk, lines 122-138: the loop, then a save only if updated
CheckinDecide(s) ==
  /\ pc[s] = "decide"
  /\ op[s].kind = "checkin"
  /\ LET r == CheckinLoop(df[s], op[s].ids, op[s].day, <<0, 0, 0>>) IN
       /\ df' = [df EXCEPT ![s] = IF Updated(r.counts) THEN r.rows ELSE <<>>]
       /\ IF Updated(r.counts)
          THEN /\ pc' = [pc EXCEPT ![s] = "save_acq"]
               /\ result' = [result EXCEPT ![s] =
                               [NoResult EXCEPT !.status = "pending", !.ok = TRUE,
                                                !.counts = r.counts]]
          ELSE /\ pc' = [pc EXCEPT ![s] = "done"]
               /\ result' = [result EXCEPT ![s] =
                               [NoResult EXCEPT !.status = "returned", !.ok = TRUE,
                                                !.counts = r.counts]]
  /\ UNCHANGED <<file, lock, op, opsLeft, issued>>

\* ------------------------------------------------------------------ import
\* rows of an uploaded sheet: a name that differs from a registered one by
\* case and blanks only, already marked attended; and a row with no name
RowA ==
  [no |-> 1, name |-> <<"A", " ">>, coop |-> <<>>, district |-> <<"|", "a">>,
   province |-> <<"p">>, d1 |-> TRUE, d2 |-> FALSE, sig |-> <<>>]

RowNoName ==
  [no |-> 1, name |-> NaN, coop |-> <<>>, district |-> <<"a">>,
   province |-> <<"p">>, d1 |-> FALSE, d2 |-> FALSE, sig |-> <<>>]

BatchInputs == {<<RowA>>, <<RowNoName>>, <<RowNoName, RowA>>}

\* mask_valid, lines 160-161
HasNameAndDistrict(r) == Strip(AsStr(r.name)) # <<>> /\ Strip(AsStr(r.district)) # <<>>

\* (variant: rows of the sheet with the same key are all kept)
DropDuplicateKeysNone(rows) == rows

\* drop_duplicates(subset=["__Key"], keep="first"), line 177
DropDuplicateKeys(rows) ==
  LET keep == {i \in 1..Len(rows) :
                 \A j \in 1..(i - 1) : SeriesKey(rows[j]) # SeriesKey(rows[i])}
      F[i \in 0..Len(rows)] ==
        IF i = 0 THEN <<>>
        ELSE IF i \in keep THEN Append(F[i - 1], rows[i]) ELSE F[i - 1]
  IN F[Len(rows)]

\* existing_keys, line 182
ExistingKeys(rows) == {SeriesKey(rows[i]) : i \in 1..Len(rows)}

\* (variant: the numbering starts at 1 whatever the store holds)
StartNoFromOne(rows) == 1

\* start_no, line 193
StartNo(rows) == MaxNo(rows) + 1

\* (variant: the save is made whether or not rows remain)
NothingToAddIgnored(toAdd) == FALSE

\* if to_add.empty:, line 189
NothingToAdd(toAdd) == toAdd = <<>>

\* lines 156-198 of import_block on the uploaded rows and the loaded table:
\* the rows to add, numbered, and the number of rows skipped
ImportPlan(batch, existing) ==
  LET incoming == EnsureSchema(ReadExcel(batch))
      cleaned == SelectSeq(incoming, HasNameAndDistrict)
      unique == DropDuplicateKeys(cleaned)
      isNew(r) == SeriesKey(r) \notin ExistingKeys(existing)
      toAdd == SelectSeq(unique, isNew)
      numbered == [i \in 1..Len(toAdd) |->
                     [toAdd[i] EXCEPT !.no = StartNo(existing) + i - 1]]
  IN [toAdd |-> EnsureSchema(numbered),
      skipped |-> (Len(incoming) - Len(cleaned)) + (Len(cleaned) - Len(unique))
                    + (Len(unique) - Len(toAdd))]

StartImport(s, batch) ==
  /\ CanStart(s)
  /\ opsLeft' = opsLeft - 1
  /\ op' = [op EXCEPT ![s] = [NoOp EXCEPT !.kind = "import", !.batch = batch]]
  /\ pc' = [pc EXCEPT ![s] = "load_acq"]
  /\ result' = [result EXCEPT ![s] = NoResult]
  /\ UNCHANGED <<file, lock, df, issued>>

\* import_block, lines 181-206: counts = <<added, skipped, 0>>
ImportDecide(s) ==
  /\ pc[s] = "decide"
  /\ op[s].kind = "import"
  /\ LET plan == ImportPlan(op[s].batch, df[s]) IN
       IF NothingToAdd(plan.toAdd)
       THEN /\ pc' = [pc EXCEPT ![s] = "done"]
            /\ result' = [result EXCEPT ![s] =
                            [NoResult EXCEPT !.status = "returned", !.ok = TRUE,
                                             !.counts = <<0, plan.skipped, 0>>]]
            /\ df' = [df EXCEPT ![s] = <<>>]
       ELSE /\ pc' = [pc EXCEPT ![s] = "save_acq"]
            /\ df' = [df EXCEPT ![s] = @ \o plan.toAdd]
            /\ result' = [result EXCEPT ![s] =
                            [NoResult EXCEPT !.status = "pending", !.ok = TRUE,
                                             !.added = plan.toAdd,
                                             !.counts = <<Len(plan.toAdd), plan.skipped, 0>>]]
  /\ UNCHANGED <<file, lock, op, opsLeft, issued>>

\* ------------------------------------------------------------------ dedupe
\* drop_duplicates(subset=[name norm, district norm], keep="first"), line 222
DropDuplicateNames(rows) ==
  LET keep == {i \in 1..Len(rows) :
                 \A j \in 1..(i - 1) :
                   ~(/\ Norm(rows[j].name) = Norm(rows[i].name)
                     /\ Norm(rows[j].district) = Norm(rows[i].district))}
      F[i \in 0..Len(rows)] ==
        IF i = 0 THEN <<>>
        ELSE IF i \in keep THEN Append(F[i - 1], rows[i]) ELSE F[i - 1]
  IN F[Len(rows)]

StartDedupe(s) ==
  /\ CanStart(s)
  /\ opsLeft' = opsLeft - 1
  /\ op' = [op EXCEPT ![s] = [NoOp EXCEPT !.kind = "dedupe"]]
  /\ pc' = [pc EXCEPT ![s] = "load_acq"]
  /\ result' = [result EXCEPT ![s] = NoResult]
  /\ UNCHANGED <<file, lock, df, issued>>

\* dedupe_existing_on_name_district, lines 217-228: counts = <<kept, removed, 0>>
DedupeDecide(s) ==
  /\ pc[s] = "decide"
  /\ op[s].kind = "dedupe"
  /\ LET kept == DropDuplicateNames(df[s])
         removed == Len(df[s]) - Len(kept) IN
       /\ df' = [df EXCEPT ![s] = IF removed > 0 THEN kept ELSE <<>>]
       /\ IF removed > 0
          THEN /\ pc' = [pc EXCEPT ![s] = "save_acq"]
               /\ result' = [result EXCEPT ![s] =
                               [NoResult EXCEPT !.status = "pending", !.ok = TRUE,
                                                !.counts = <<Len(kept), removed, 0>>]]
          ELSE /\ pc' = [pc EXCEPT ![s] = "done"]
               /\ result' = [result EXCEPT ![s] =
                               [NoResult EXCEPT !.status = "returned", !.ok = TRUE,
                                                !.counts = <<Len(kept), removed, 0>>]]
  /\ UNCHANGED <<file, lock, op, opsLeft, issued>>

\* ------------------------------------------------------------------ system
Step(s) ==
  \/ LoadAcquire(s) \/ LoadRead(s) \/ LoadFail(s) \/ LoadRelease(s)
  \/ LoadErrRelease(s)
  \/ SaveAcquire(s) \/ SaveWrite(s) \/ SaveFailEarly(s) \/ SaveFailLate(s)
  \/ SaveRelease(s) \/ SaveErrRelease(s)
  \/ RegisterDecide(s) \/ CheckinDecide(s) \/ ImportDecide(s) \/ DedupeDecide(s)

Start(s) ==
  \/ \E in \in RegInputs : StartRegister(s, in)
  \/ \E ids \in IdsInputs, day \in Days : StartCheckin(s, ids, day)
  \/ \E batch \in BatchInputs : StartImport(s, batch)
  \/ StartDedupe(s)

Next == \E s \in Sessions : Start(s) \/ Step(s)

\* concurrent sessions
Spec == Init /\ [][Next]_vars

SpecDeep == InitDeep /\ [][Next]_vars

\* every operation runs to completion before the next one starts
Quiet == \A t \in Sessions : pc[t] \in {"idle", "done"}

NextSeq == \E s \in Sessions : (Quiet /\ Start(s)) \/ Step(s)

SpecSeq == Init /\ [][NextSeq]_vars

SpecSeqDeep == InitSeqDeep /\ [][NextSeq]_vars

\* ------------------------------------------------------------------ the race
\* N sessions have all called register for one identity (spelt with or
\* without capitals and blanks) and passed validation; the store holds no
\* record of it: no file yet, or one other participant.
RaceInputs ==
  { [name |-> <<"a">>, coop |-> <<>>, district |-> <<"|", "a">>, province |-> <<"p">>],
    [name |-> <<" ", "A">>, coop |-> <<>>, district |-> <<"|", "a">>,
     province |-> <<"p">>] }

RaceStores ==
  { [kind |-> "none", rows |-> <<>>],
    [kind |-> "table",
     rows |-> <<[no |-> 1, name |-> <<"b">>, coop |-> NaN, district |-> <<"a">>,
                 province |-> <<"p">>, d1 |-> FALSE, d2 |-> FALSE, sig |-> NaN]>>] }

InitRace ==
  /\ file \in RaceStores
  /\ lock = 0
  /\ pc = [s \in Sessions |-> "load_acq"]
  /\ op \in [Sessions -> {[NoOp EXCEPT !.kind = "register", !.name = in.name,
                                       !.coop = in.coop,
                                       !.district = in.district,
                                       !.province = in.province] : in \in RaceInputs}]
  /\ df = [s \in Sessions |-> <<>>]
  /\ result = [s \in Sessions |-> NoResult]
  /\ opsLeft = 0
  /\ issued = {file.rows[i].no : i \in 1..Len(file.rows)}

NextRace ==
  \E s \in Sessions :
    \/ LoadAcquire(s) \/ LoadRead(s) \/ LoadRelease(s)
    \/ RegisterDecide(s)
    \/ SaveAcquire(s) \/ SaveWrite(s) \/ SaveRelease(s)

SpecRace == InitRace /\ [][NextRace]_vars

\* ------------------------------------------------------------------ register only
\* calls that a form with blank or padded fields produces
ValidationInputs ==
  { [name |-> <<"a">>, coop |-> <<" ", "c">>, district |-> <<" ">>,
     province |-> <<"p">>],
    [name |-> <<"a">>, coop |-> <<>>, district |-> <<"a">>, province |-> <<>>],
    [name |-> <<" ", "A", " ">>, coop |-> <<"c", " ">>, district |-> <<"a">>,
     province |-> <<" ", "p">>] }

RegisterInputs == RegInputs \cup ValidationInputs

\* the steps of get_df and save_df
FileStep(s) ==
  \/ LoadAcquire(s) \/ LoadRead(s) \/ LoadFail(s) \/ LoadRelease(s)
  \/ LoadErrRelease(s)
  \/ SaveAcquire(s) \/ SaveWrite(s) \/ SaveFailEarly(s) \/ SaveFailLate(s)
  \/ SaveRelease(s) \/ SaveErrRelease(s)

\* sessions that only register, concurrently
NextRegister ==
  \E s \in Sessions :
    \/ \E in \in RegisterInputs : StartRegister(s, in)
    \/ FileStep(s)
    \/ RegisterDecide(s)

SpecRegister == Init /\ [][NextRegister]_vars

\* sessions that only register, one call after the other
NextRegisterSeq ==
  \E s \in Sessions :
    \/ Quiet /\ \E in \in RegisterInputs : StartRegister(s, in)
    \/ FileStep(s)
    \/ RegisterDecide(s)

SpecRegisterSeq == Init /\ [][NextRegisterSeq]_vars

\* ------------------------------------------------------------------ check-in only
\* a stored participant, as written by an earlier save
Stored(no, name, d1, d2) ==
  [no |-> no, name |-> name, coop |-> NaN, district |-> <<"a">>,
   province |-> <<"p">>, d1 |-> d1, d2 |-> d2, sig |-> NaN]

\* no file yet, or record 1 with no flag and record 2 checked in on day 1
CheckinStores ==
  { [kind |-> "none", rows |-> <<>>],
    [kind |-> "table",
     rows |-> <<Stored(1, <<"a">>, FALSE, FALSE), Stored(2, <<"b">>, TRUE, FALSE)>>] }

\* the lists of numbers and the days the desk submits; 9 is no record
CheckinIds == {<<>>, <<2, 9>>, <<1, 2, 9>>, <<1, 2, 9, 1>>}

DayInputs == {1, 2, 3}

InitCheckin ==
  /\ file \in CheckinStores
  /\ lock = 0
  /\ pc = [s \in Sessions |-> "idle"]
  /\ op = [s \in Sessions |-> NoOp]
  /\ df = [s \in Sessions |-> <<>>]
  /\ result = [s \in Sessions |-> NoResult]
  /\ opsLeft = MaxOps
  /\ issued = {file.rows[i].no : i \in 1..Len(file.rows)}

\* sessions that only check in, concurrently
NextCheckin ==
  \E s \in Sessions :
    \/ \E ids \in CheckinIds, day \in DayInputs : StartCheckin(s, ids, day)
    \/ FileStep(s)
    \/ CheckinDecide(s)

SpecCheckin == InitCheckin /\ [][NextCheckin]_vars

\* ------------------------------------------------------------------ import only
\* a row of an uploaded sheet, with the number the sheet gives it
SheetRow(no, name, district) ==
  [no |-> no, name |-> name, coop |-> NaN, district |-> district,
   province |-> <<"p">>, d1 |-> FALSE, d2 |-> FALSE, sig |-> NaN]

\* three rows, the first two with one (name, district) spelt differently
SheetTwoAlike ==
  << SheetRow(7, <<"A", " ">>, <<"a">>), SheetRow(7, <<"a">>, <<" ", "A">>),
     SheetRow(1, <<"b">>, <<"a">>) >>

\* a row whose name is blanks only, then a row and its repetition
SheetBlankFirst ==
  << SheetRow(3, <<" ">>, <<"a">>), SheetRow(3, <<"a">>, <<"a">>),
     SheetRow(4, <<" ", "A">>, <<"a", " ">>) >>

\* one row with the name "na"
SheetLowerNA == << SheetRow(1, <<"n", "a">>, <<"a">>) >>

SheetInputs == {SheetTwoAlike, SheetBlankFirst, SheetLowerNA}

ImportBatches == BatchInputs \cup SheetInputs

\* no file yet; two registered participants, one checked in; one participant
\* registered with the name "NA"
ImportStores ==
  { [kind |-> "none", rows |-> <<>>],
    [kind |-> "table",
     rows |-> <<Stored(1, <<"a">>, FALSE, FALSE), Stored(2, <<"b">>, TRUE, FALSE)>>],
    [kind |-> "table", rows |-> <<Stored(1, <<"N", "A">>, FALSE, FALSE)>>] }

InitImport ==
  /\ file \in ImportStores
  /\ lock = 0
  /\ pc = [s \in Sessions |-> "idle"]
  /\ op = [s \in Sessions |-> NoOp]
  /\ df = [s \in Sessions |-> <<>>]
  /\ result = [s \in Sessions |-> NoResult]
  /\ opsLeft = MaxOps
  /\ issued = {file.rows[i].no : i \in 1..Len(file.rows)}

\* sessions that only import, concurrently
NextImport ==
  \E s \in Sessions :
    \/ \E batch \in SheetInputs : StartImport(s, batch)
    \/ FileStep(s)
    \/ ImportDecide(s)

SpecImport == InitImport /\ [][NextImport]_vars

\* sessions that only import, one call after the other
NextImportSeq ==
  \E s \in Sessions :
    \/ Quiet /\ \E batch \in ImportBatches : StartImport(s, batch)
    \/ FileStep(s)
    \/ ImportDecide(s)

SpecImportSeq == InitImport /\ [][NextImportSeq]_vars

\* ------------------------------------------------------------------ dedupe only
\* no file; three participants, the third a respelling of the first, from
\* before registrations were checked; the store that registering 'NA' twice
\* leaves
DedupeStores ==
  { [kind |-> "none", rows |-> <<>>],
    [kind |-> "table",
     rows |-> <<Stored(1, <<"a">>, TRUE, FALSE), Stored(2, <<"b">>, FALSE, FALSE),
                Stored(3, <<"A", " ">>, FALSE, TRUE)>>],
    [kind |-> "table",
     rows |-> <<Stored(1, NaN, FALSE, FALSE), Stored(2, <<"N", "A">>, FALSE, FALSE)>>] }

InitDedupe ==
  /\ file \in DedupeStores
  /\ lock = 0
  /\ pc = [s \in Sessions |-> "idle"]
  /\ op = [s \in Sessions |-> NoOp]
  /\ df = [s \in Sessions |-> <<>>]
  /\ result = [s \in Sessions |-> NoResult]
  /\ opsLeft = MaxOps
  /\ issued = {file.rows[i].no : i \in 1..Len(file.rows)}

\* the maintenance pass, one call after the other
NextDedupe ==
  \E s \in Sessions :
    \/ Quiet /\ StartDedupe(s)
    \/ FileStep(s)
    \/ DedupeDecide(s)

SpecDedupe == InitDedupe /\ [][NextDedupe]_vars

\* ------------------------------------------------------------------ summary
RECURSIVE SumTrue(_)
\* Series.sum() of a boolean series
SumTrue(flags) ==
  IF flags = <<>> THEN 0
  ELSE (IF Head(flags) THEN 1 ELSE 0) + SumTrue(Tail(flags))

\* (variant: a row counts as both when either flag is set)
EitherFlag(a, b) == a \/ b

\* df["Day1_Attended"] & df["Day2_Attended"], line 70, for one row
BothFlags(a, b) == a /\ b

\* get_summary: <<total, d1, d2, both, none>>
GetSummary(rows) ==
  << Len(rows),
     SumTrue([i \in 1..Len(rows) |-> rows[i].d1]),
     SumTrue([i \in 1..Len(rows) |-> rows[i].d2]),
     SumTrue([i \in 1..Len(rows) |-> BothFlags(rows[i].d1, rows[i].d2)]),
     SumTrue([i \in 1..Len(rows) |-> ~rows[i].d1 /\ ~rows[i].d2]) >>

\* the dashboard: get_df(), then get_summary(df)
StartSummary(s) ==
  /\ CanStart(s)
  /\ opsLeft' = opsLeft - 1
  /\ op' = [op EXCEPT ![s] = [NoOp EXCEPT !.kind = "summary"]]
  /\ pc' = [pc EXCEPT ![s] = "load_acq"]
  /\ result' = [result EXCEPT ![s] = NoResult]
  /\ UNCHANGED <<file, lock, df, issued>>

SummaryDecide(s) ==
  /\ pc[s] = "decide"
  /\ op[s].kind = "summary"
  /\ pc' = [pc EXCEPT ![s] = "done"]
  /\ result' = [result EXCEPT ![s] =
                  [NoResult EXCEPT !.status = "returned", !.ok = TRUE,
                                   !.counts = GetSummary(df[s])]]
  /\ df' = [df EXCEPT ![s] = <<>>]
  /\ UNCHANGED <<file, lock, op, opsLeft, issued>>

\* the i-th participant's name: "a", "ab", "abb", ...
PersonName(i) == [j \in 1..i |-> IF j = 1 THEN "a" ELSE "b"]

\* no file, or a stored table of up to MaxRows participants numbered from 1,
\* with any attendance
SummaryStores ==
  {[kind |-> "none", rows |-> <<>>]} \cup
  UNION { { [kind |-> "table",
             rows |-> [i \in 1..n |-> Stored(i, PersonName(i), f[i][1], f[i][2])]] :
            f \in [1..n -> BOOLEAN \X BOOLEAN] } : n \in 1..MaxRows }

\* one session opens the dashboard
InitSummary ==
  /\ file \in SummaryStores
  /\ lock = 0
  /\ pc = [s \in Sessions |-> "idle"]
  /\ op = [s \in Sessions |-> NoOp]
  /\ df = [s \in Sessions |-> <<>>]
  /\ result = [s \in Sessions |-> NoResult]
  /\ opsLeft = 1
  /\ issued = {file.rows[i].no : i \in 1..Len(file.rows)}

NextSummary ==
  \E s \in Sessions :
    \/ StartSummary(s)
    \/ LoadAcquire(s) \/ LoadRead(s) \/ LoadRelease(s)
    \/ SummaryDecide(s)

SpecSummary == InitSummary /\ [][NextSummary]_vars

\* ------------------------------------------------------------------ reading
\* the alternatives of a regular expression: its parts between the "|"
RECURSIVE Alternatives(_)
Alternatives(q) ==
  IF \E i \in 1..Len(q) : q[i] = "|"
  THEN LET i == CHOOSE i \in 1..Len(q) : q[i] = "|" /\ \A j \in 1..(i - 1) : q[j] # "|"
       IN {SubSeq(q, 1, i - 1)} \cup Alternatives(SubSeq(q, i + 1, Len(q)))
  ELSE {q}

\* str.contains(q), regex=True by default: re.search(q, text), for patterns
\* of plain characters, "." (any character) and "|"
Contains(text, q) ==
  \E alt \in Alternatives(q) :
    \E i \in 0..(Len(text) - Len(alt)) :
      \A k \in 1..Len(alt) : alt[k] = "." \/ text[i + k] = alt[k]

\* sort_values(by="NO.", kind="stable")
SortByNo(rows) ==
  LET rank(i) == Cardinality({j \in 1..Len(rows) :
                                \/ rows[j].no < rows[i].no
                                \/ rows[j].no = rows[i].no /\ j < i}) + 1
  IN [k \in 1..Len(rows) |-> rows[CHOOSE i \in 1..Len(rows) : rank(i) = k]]

\* filter_df(df, name, district, coop), lines 78-89
FilterDf(rows, name, district, coop) ==
  LET Keep(r) ==
        /\ Strip(name) # <<>> => Contains(Norm(r.name), Lower(Strip(name)))
        /\ Strip(district) # <<>> => Contains(Norm(r.district), Lower(Strip(district)))
        /\ Strip(coop) # <<>> => Contains(Norm(r.coop), Lower(Strip(coop)))
      F[i \in 0..Len(rows)] ==
        IF i = 0 THEN <<>>
        ELSE IF Keep(rows[i]) THEN Append(F[i - 1], rows[i]) ELSE F[i - 1]
  IN SortByNo(F[Len(rows)])

\* the Summary sheet of the report, lines 266-283:
\* <<total, day 1, day 2, either, both, neither>>
ReportSummary(rows) ==
  << Len(rows),
     SumTrue([i \in 1..Len(rows) |-> rows[i].d1]),
     SumTrue([i \in 1..Len(rows) |-> rows[i].d2]),
     SumTrue([i \in 1..Len(rows) |-> rows[i].d1 \/ rows[i].d2]),
     SumTrue([i \in 1..Len(rows) |-> rows[i].d1 /\ rows[i].d2]),
     SumTrue([i \in 1..Len(rows) |-> ~rows[i].d1 /\ ~rows[i].d2]) >>

\* the operations that only read
ReadKinds == {"view", "filter", "summary", "report"}

\* what is searched for on the attendance page
FilterInputs ==
  { [name |-> <<>>, district |-> <<>>, coop |-> <<>>],
    [name |-> <<" ", "A">>, district |-> <<"a">>, coop |-> <<>>] }

\* a page calls get_df(); with kind "filter" it goes on to filter_df,
\* with kind "report" the call is build_report_bytes()
StartRead(s, kind, q) ==
  /\ CanStart(s)
  /\ opsLeft' = opsLeft - 1
  /\ op' = [op EXCEPT ![s] =
              [NoOp EXCEPT !.kind = kind, !.name = q.name,
                           !.district = q.district, !.coop = q.coop]]
  /\ pc' = [pc EXCEPT ![s] = "load_acq"]
  /\ result' = [result EXCEPT ![s] = NoResult]
  /\ UNCHANGED <<file, lock, df, issued>>

\* get_df() has returned: the table is shown, filtered, or put into the
\* sheets of a workbook built in memory (the Summary and Raw Data sheets are
\* modelled; the grouped sheets are built from the same table)
ReadDecide(s) ==
  /\ pc[s] = "decide"
  /\ op[s].kind \in {"view", "filter", "report"}
  /\ pc' = [pc EXCEPT ![s] = "done"]
  /\ result' = [result EXCEPT ![s] =
       [status |-> "returned", ok |-> TRUE,
        added |-> IF op[s].kind = "filter"
                  THEN FilterDf(df[s], op[s].name, op[s].district, op[s].coop)
                  ELSE df[s],
        counts |-> IF op[s].kind = "report" THEN ReportSummary(df[s]) ELSE <<0, 0, 0>>]]
  /\ df' = [df EXCEPT ![s] = <<>>]
  /\ UNCHANGED <<file, lock, op, opsLeft, issued>>

\* no file, or two stored participants
ReadStores ==
  { [kind |-> "none", rows |-> <<>>],
    [kind |-> "table",
     rows |-> <<Stored(1, <<"a">>, TRUE, FALSE), Stored(2, <<"a", "b">>, TRUE, TRUE)>>] }

InitRead ==
  /\ file \in ReadStores
  /\ lock = 0
  /\ pc = [s \in Sessions |-> "idle"]
  /\ op = [s \in Sessions |-> NoOp]
  /\ df = [s \in Sessions |-> <<>>]
  /\ result = [s \in Sessions |-> NoResult]
  /\ opsLeft = MaxOps
  /\ issued = {file.rows[i].no : i \in 1..Len(file.rows)}

\* sessions that read, next to sessions that register
NextRead ==
  \E s \in Sessions :
    \/ \E kind \in {"view", "report"} : StartRead(s, kind, NoOp)
    \/ \E q \in FilterInputs : StartRead(s, "filter", q)
    \/ StartSummary(s)
    \/ \E in \in RaceInputs : StartRegister(s, in)
    \/ FileStep(s)
    \/ ReadDecide(s) \/ SummaryDecide(s) \/ RegisterDecide(s)

SpecRead == InitRead /\ [][NextRead]_vars

\* ------------------------------------------------------------------ filter only
\* what is typed into the search boxes
FilterQueries ==
  FilterInputs \cup
  { [name |-> <<"b">>, district |-> <<>>, coop |-> <<>>],
    [name |-> <<" ", "B", " ">>, district |-> <<" ">>, coop |-> <<>>],
    [name |-> <<".">>, district |-> <<>>, coop |-> <<>>],
    [name |-> <<>>, district |-> <<>>, coop |-> <<"a", "n">>],
    [name |-> <<>>, district |-> <<"|", "b">>, coop |-> <<>>] }

\* no file; two participants; a participant imported without a name; a
\* workbook put together and re-ordered by hand
FilterStores ==
  { [kind |-> "none", rows |-> <<>>],
    [kind |-> "table",
     rows |-> <<Stored(1, <<"a">>, TRUE, FALSE), Stored(2, <<"a", "b">>, FALSE, FALSE)>>],
    [kind |-> "table",
     rows |-> <<Stored(1, NaN, FALSE, FALSE), Stored(2, <<"B">>, FALSE, FALSE)>>],
    [kind |-> "table",
     rows |-> <<Stored(2, <<"a", "b">>, FALSE, FALSE), Stored(1, <<"b">>, FALSE, FALSE),
                Stored(2, <<"b", "a">>, TRUE, FALSE)>>] }

InitFilter ==
  /\ file \in FilterStores
  /\ lock = 0
  /\ pc = [s \in Sessions |-> "idle"]
  /\ op = [s \in Sessions |-> NoOp]
  /\ df = [s \in Sessions |-> <<>>]
  /\ result = [s \in Sessions |-> NoResult]
  /\ opsLeft = 1
  /\ issued = {file.rows[i].no : i \in 1..Len(file.rows)}

\* one session searches: get_df(), then filter_df
NextFilter ==
  \E s \in Sessions :
    \/ \E q \in FilterQueries : StartRead(s, "filter", q)
    \/ LoadAcquire(s) \/ LoadRead(s) \/ LoadRelease(s)
    \/ ReadDecide(s)

SpecFilter == InitFilter /\ [][NextFilter]_vars

\* ------------------------------------------------------------------ fair sessions
\* the one participant the sessions register
LiveInputs ==
  { [name |-> <<"a">>, coop |-> <<>>, district |-> <<"a">>, province |-> <<"p">>] }

\* sessions that call get_df (a load) or register_participant (a load, then
\* a save)
NextLive ==
  \E s \in Sessions :
    \/ StartRead(s, "view", NoOp)
    \/ \E in \in LiveInputs : StartRegister(s, in)
    \/ FileStep(s)
    \/ ReadDecide(s) \/ RegisterDecide(s)

\* each session is a process of its own that keeps running: a step of its
\* operation that stays possible is taken
Run(s) == FileStep(s) \/ ReadDecide(s) \/ RegisterDecide(s)

Fair == \A s \in Sessions : WF_vars(Run(s))

SpecFair == Init /\ [][NextLive]_vars /\ Fair

\* ------------------------------------------------------------------ ensure_schema on any table
\* A cell of a dataframe of any shape: its type and str(value).
Bool(b) ==
  [t |-> "bool", v |-> IF b THEN <<"T", "r", "u", "e">> ELSE <<"F", "a", "l", "s", "e">>]

Text(s) == [t |-> "text", v |-> s]

Digit(n) == CASE n = 0 -> "0" [] n = 1 -> "1" [] n = 2 -> "2" [] OTHER -> "3"

\* a whole number
Whole(n) == [t |-> "int", v |-> <<Digit(n)>>]

\* the number 1.5
Fraction == [t |-> "float", v |-> <<"1", ".", "5">>]

\* NaN / <NA>
Missing == [t |-> "nan", v |-> <<"n", "a", "n">>]

\* REQUIRED_BASE_COLS + TRACKING_COLS
Canonical ==
  <<"NO.", "Name", "Name of Co-operative/Association", "District", "Province",
    "Registered_On", "Day1_Attended", "Day2_Attended", "Signature">>

Range(f) == {f[i] : i \in DOMAIN f}

\* len(df) of a table [order: its column names, data: name -> column]
NRows(T) == IF T.order = <<>> THEN 0 ELSE Len(T.data[T.order[1]])

\* the column ensure_schema creates for a missing canonical column
DefaultCell(c, now) ==
  CASE c = "Registered_On" -> Text(now)
    [] c \in {"Day1_Attended", "Day2_Attended"} -> Bool(FALSE)
    [] c = "NO." -> Missing
    [] OTHER -> Text(<<>>)

AddMissingColumns(T, now) ==
  [c \in Range(Canonical) \cup DOMAIN T.data |->
     IF c \in DOMAIN T.data THEN T.data[c]
     ELSE [i \in 1..NRows(T) |-> DefaultCell(c, now)]]

\* pd.to_numeric(errors="coerce") of one cell
ToNumeric(c) ==
  CASE c.t \in {"int", "float", "nan"} -> c
    [] c.t = "text" /\ Strip(c.v) \in {<<"0">>, <<"1">>, <<"2">>, <<"3">>} ->
         [t |-> "int", v |-> Strip(c.v)]
    [] OTHER -> Missing

\* df["NO."] = to_numeric(...).astype("Int64") inside try/except: astype
\* raises on a number that is not whole, and the column stays as it was
CoerceNo(col) ==
  LET num == [i \in 1..Len(col) |-> ToNumeric(col[i])] IN
  IF \E i \in 1..Len(col) : num[i].t = "float" THEN col ELSE num

\* the texts that map to True
TrueTexts == {<<"t", "r", "u", "e">>, <<"y", "e", "s">>, <<"1">>}

\* (variant: every cell counts as missing)
IsNaAlways(c) == TRUE

\* Series.isna() of one cell
IsNa(c) == c.t = "nan"

\* astype(bool) of a number
NonZero(c) == c.v # <<"0">>

\* the coercion of one attendance column, lines 40-50
CoerceFlags(col) ==
  LET n == Len(col)
      isBool == n > 0 /\ \A i \in 1..n : col[i].t = "bool"
      \* a column of numbers with a missing cell is float64: 1 is 1.0
      isFloat == /\ \A i \in 1..n : col[i].t \in {"int", "float", "nan"}
                 /\ \E i \in 1..n : col[i].t \in {"float", "nan"}
      str(c) == IF c.t = "int" /\ isFloat THEN c.v \o <<".", "0">> ELSE c.v
      filled == [i \in 1..n |-> IF col[i].t = "nan" THEN Bool(FALSE) ELSE col[i]]
      isObject == \E i \in 1..n : filled[i].t \in {"text", "bool"}
  IN  IF isBool THEN col
      ELSE IF isObject
           THEN [i \in 1..n |-> Bool(Lower(Strip(str(filled[i]))) \in TrueTexts)]
           ELSE [i \in 1..n |-> Bool(NonZero(filled[i]))]

\* if df["Registered_On"].isna().any(): ... fillna(now)
FillRegisteredOn(col, now) ==
  IF \E i \in 1..Len(col) : IsNa(col[i])
  THEN [i \in 1..Len(col) |-> IF IsNa(col[i]) THEN Text(now) ELSE col[i]]
  ELSE col

\* ensure_schema(df), called at the time `now`
EnsureSchemaAny(T, now) ==
  LET all == AddMissingColumns(T, now) IN
  [order |-> Canonical,
   data |-> [c \in Range(Canonical) |->
               CASE c = "NO." -> CoerceNo(all[c])
                 [] c \in {"Day1_Attended", "Day2_Attended"} -> CoerceFlags(all[c])
                 [] c = "Registered_On" -> FillRegisteredOn(all[c], now)
                 [] OTHER -> all[c]]]

\* the tables ensure_schema is handed: a caller's dataframe, or what
\* read_excel made of a sheet
Reverse(q) == [i \in 1..Len(q) |-> q[Len(q) + 1 - i]]

\* a table of n rows as ensure_schema returns it
CanonicalData(n) ==
  [c \in Range(Canonical) |->
     [i \in 1..n |->
        CASE c = "NO." -> Whole(i)
          [] c \in {"Day1_Attended", "Day2_Attended"} -> Bool(FALSE)
          [] c = "Registered_On" -> Text(<<"t", "0">>)
          [] c = "Signature" -> Text(<<>>)
          [] OTHER -> Text(<<"a">>)]]

NoCells == {Whole(1), Text(<<"2">>), Text(<<"x">>), Missing, Fraction}

FlagCells ==
  {Bool(TRUE), Bool(FALSE), Missing, Text(<<" ", "Y", "E", "S">>), Text(<<"n", "o">>),
   Text(<<"1">>), Whole(0), Whole(1), Whole(2)}

\* any cells in NO.
NoTables ==
  UNION {{[order |-> Canonical, data |-> [CanonicalData(n) EXCEPT !["NO."] = col]] :
            col \in [1..n -> NoCells]} : n \in 0..MaxCells}

\* any cells in the attendance columns
FlagTables ==
  UNION {{[order |-> Canonical,
           data |-> [CanonicalData(n) EXCEPT !["Day1_Attended"] = col,
                                             !["Day2_Attended"] = Reverse(col)]] :
            col \in [1..n -> FlagCells]} : n \in 0..MaxCells}

\* two columns only, in another order
TwoColumns(n) ==
  [order |-> <<"District", "Name">>,
   data |-> [c \in {"District", "Name"} |-> [i \in 1..n |-> Text(<<"a">>)]]]

\* one column more, the columns in another order, a registration time missing
OneMore(n) ==
  [order |-> <<"Extra">> \o Reverse(Canonical),
   data |-> [c \in Range(Canonical) \cup {"Extra"} |->
               IF c = "Registered_On"
               THEN [i \in 1..n |-> IF i = 1 THEN Missing ELSE Text(<<"t", "0">>)]
               ELSE IF c = "Extra" THEN [i \in 1..n |-> Text(<<"x">>)]
               ELSE CanonicalData(n)[c]]]

ShapeTables ==
  {[order |-> <<>>, data |-> <<>>]}
    \cup {TwoColumns(n) : n \in 0..MaxCells} \cup {OneMore(n) : n \in 0..MaxCells}

AnyTables == NoTables \cup FlagTables \cup ShapeTables

\* datetime.now(), to the second
Clock == {<<"t", "1">>, <<"t", "2">>}

\* session 1 holds a table; nothing else is going on
InitSchema ==
  /\ file = [kind |-> "none", rows |-> <<>>]
  /\ lock = 0
  /\ pc = [s \in Sessions |-> "idle"]
  /\ df = [s \in Sessions |-> <<>>]
  /\ result = [s \in Sessions |-> NoResult]
  /\ issued = {}
  /\ opsLeft = 0
  /\ \E T \in AnyTables :
       op = [s \in Sessions |->
               IF s = 1 THEN [NoOp EXCEPT !.kind = "ensure_schema", !.batch = T] ELSE NoOp]

\* ensure_schema(df) as load_df and save_df call it
EnsureSchemaCall(s, now) ==
  /\ pc[s] = "idle"
  /\ op[s].kind = "ensure_schema"
  /\ df' = [df EXCEPT ![s] = EnsureSchemaAny(op[s].batch, now)]
  /\ pc' = [pc EXCEPT ![s] = "normalized"]
  /\ UNCHANGED <<file, lock, op, result, opsLeft, issued>>

\* ensure_schema on the table ensure_schema returned, as in get_df
EnsureSchemaAgain(s, now) ==
  /\ pc[s] = "normalized"
  /\ result' = [result EXCEPT ![s] =
                  [NoResult EXCEPT !.status = "returned",
                                   !.added = EnsureSchemaAny(df[s], now)]]
  /\ pc' = [pc EXCEPT ![s] = "done"]
  /\ UNCHANGED <<file, lock, op, df, opsLeft, issued>>

NextSchema ==
  \E s \in Sessions, now \in Clock :
    \/ EnsureSchemaCall(s, now)
    \/ EnsureSchemaAgain(s, now)

SpecSchema == InitSchema /\ [][NextSchema]_vars

\* ------------------------------------------------------------------ claims
\* the identity key of a stored record, as the claims define it
StoredKey(r) == MakeKey(r.name, r.district)

RowsWithKey(rows, k) == {i \in 1..Len(rows) : StoredKey(rows[i]) = k}

\* C1: when all the concurrent register calls for one new identity have
\* returned, the store holds exactly one record with that identity key and
\* exactly one of the calls has returned success.
C1_OneRecordOneSuccess ==
  (/\ \A s \in Sessions : pc[s] = "done" /\ op[s].kind = "register"
   /\ \A s, t \in Sessions :
        MakeKey(op[s].name, op[s].district) = MakeKey(op[t].name, op[t].district))
  => /\ \A s \in Sessions :
          Cardinality(RowsWithKey(file.rows, MakeKey(op[s].name, op[s].district))) = 1
     /\ Cardinality({s \in Sessions : result[s].ok}) = 1

\* C2: with every operation run to completion before the next one starts, no
\* two persisted records have the same identity key
\* lower(strip(name)) + "|" + lower(strip(district)).
C2_UniqueKeys ==
  \A i, j \in 1..Len(file.rows) :
    i # j => StoredKey(file.rows[i]) # StoredKey(file.rows[j])

\* C3: between an operation's load and its own save no other session's save
\* takes place: whenever the file changes, no session is waiting between its
\* load and the save it has decided on.
C3_NoSaveInsideTheGap ==
  [][file' # file => \A s \in Sessions : pc[s] # "save_acq"]_vars

\* a session is inside the with-FileLock block of load_df or save_df
InFileSection(s) ==
  pc[s] \in {"load_read", "load_rel", "load_err", "save_write", "save_rel", "save_err"}

\* C4: at most one session at a time is inside the file-access section of
\* load or save: no load reads while a save writes, no two saves write.
C4_MutualExclusion ==
  \A s, t \in Sessions : s # t => ~(InFileSection(s) /\ InFileSection(t))

\* C4 witness: a session is about to write the file inside save while
\* another session waits to enter load or save.
C4_Contended ==
  \E s, t \in Sessions :
    s # t /\ pc[s] = "save_write" /\ pc[t] \in {"load_acq", "save_acq"}

\* C5: in every persisted state, under any interleaving of the sessions'
\* operations from an empty store, no two records have the same
\* sequence_number.
C5_UniqueNumbers ==
  \A i, j \in 1..Len(file.rows) : i # j => file.rows[i].no # file.rows[j].no

\* C5 witness: two sessions' overlapping operations have both given their new
\* record the same number, both have saved and returned, and the store is a
\* complete table.
C5_SameNumberGivenTwice ==
  \E s, t \in Sessions :
    /\ s # t
    /\ pc[s] = "done" /\ pc[t] = "done"
    /\ result[s].status = "returned" /\ result[t].status = "returned"
    /\ result[s].added # <<>> /\ result[t].added # <<>>
    /\ result[s].added[1].no = result[t].added[1].no
    /\ file.kind = "table" /\ file.rows # <<>>

\* C6: every sequence number that register or import_batch gives to a record
\* it writes is strictly greater than every sequence number written for any
\* record before, also after the dedup pass has removed records.
C6_NumbersNeverReused ==
  [][\A s \in Sessions :
       (pc[s] = "save_write" /\ pc'[s] = "save_rel")
       => \A n \in AddedNos(s) : \A m \in issued : n > m]_vars

\* the record (number, name, district) is stored with the day's flag set
FlagStored(f, r, day) ==
  /\ f.kind = "table"
  /\ \E i \in 1..Len(f.rows) :
       /\ f.rows[i].no = r.no /\ f.rows[i].name = r.name
       /\ f.rows[i].district = r.district
       /\ Flag(f.rows[i], day)

\* the record (number, name, district) is stored with the day's flag clear
FlagCleared(f, r, day) ==
  /\ f.kind = "table"
  /\ \E i \in 1..Len(f.rows) :
       /\ f.rows[i].no = r.no /\ f.rows[i].name = r.name
       /\ f.rows[i].district = r.district
       /\ ~Flag(f.rows[i], day)

\* C7: once a record's day1_attended (or day2_attended) flag is true in the
\* persisted store, no later persisted state holds that record with the flag
\* false.
C7_FlagsStayTrue ==
  [][\A i \in 1..Len(file.rows) : \A day \in Days :
       FlagStored(file, file.rows[i], day) => ~FlagCleared(file', file.rows[i], day)]_vars

\* C8: once register has returned success, or import_batch has counted rows
\* as added, the store (whenever it is a complete table) holds a record with
\* each such identity.
C8_AcknowledgedRecordsStay ==
  \A s \in Sessions :
    (/\ pc[s] = "done" /\ result[s].status = "returned"
     /\ op[s].kind \in {"register", "import"}
     /\ file.kind = "table")
    => \A i \in 1..Len(result[s].added) :
         RowsWithKey(file.rows, StoredKey(result[s].added[i])) # {}

\* C9: a save that fails leaves the persisted store as it was before the
\* save started.
C9_FailedSaveKeepsTheStore ==
  [][\A s \in Sessions :
       (pc[s] = "save_write" /\ pc'[s] = "save_err") => file' = file]_vars

\* C10: with every operation run to completion before the next one starts,
\* a register call whose identity key equals that of a stored record does not
\* go on to save: it returns the already-registered failure.
C10_DuplicateKeyRejected ==
  \A s \in Sessions :
    (op[s].kind = "register" /\ pc[s] = "save_acq")
    => RowsWithKey(file.rows, MakeKey(op[s].name, op[s].district)) = {}

\* the text has no character other than blanks: it is empty after trimming
Blank(t) == \A i \in 1..Len(t) : t[i] = " "

\* t is u with its leading and trailing blanks removed
IsTrimOf(t, u) ==
  /\ t = <<>> \/ (t[1] # " " /\ t[Len(t)] # " ")
  /\ \E i \in 1..(Len(u) + 1) : \E j \in 0..Len(u) :
       /\ t = SubSeq(u, i, j)
       /\ \A k \in 1..(i - 1) : u[k] = " "
       /\ \A k \in (j + 1)..Len(u) : u[k] = " "

\* C11: a register call with a name, district or province that is empty
\* after trimming is over in one step that returns (false, reason) as a
\* value and touches neither the lock nor the file: no load, no save.
C11_BlankFieldRejected ==
  [][\A s \in Sessions : \A in \in RegisterInputs :
       ((Blank(in.name) \/ Blank(in.district) \/ Blank(in.province))
        /\ StartRegister(s, in))
       => /\ pc'[s] = "done"
          /\ result'[s].status = "returned" /\ ~result'[s].ok
          /\ file' = file /\ lock' = lock /\ df' = df]_vars

\* C11 witness: a call with a name but a blank province has returned its
\* failure while the store holds records.
C11_BlankProvinceReturned ==
  \E s \in Sessions :
    /\ pc[s] = "done" /\ op[s].kind = "register"
    /\ ~Blank(op[s].name) /\ ~Blank(op[s].district) /\ Blank(op[s].province)
    /\ result[s].status = "returned" /\ ~result[s].ok
    /\ file.kind = "table" /\ file.rows # <<>>

\* C12: with one call run after the other, the save of a register call that
\* passed validation and the duplicate test adds exactly one record, after
\* the records already stored: numbered above all of them, 1 or one more
\* than a stored number, both flags false, an empty signature and the
\* trimmed fields; and the call then returns success.
C12_RegisterAppendsOne ==
  [][\A s \in Sessions :
       op[s].kind = "register" =>
         /\ (pc[s] = "save_write" /\ pc'[s] = "save_rel") =>
              LET old == file.rows
                  new == file'.rows
                  r == new[Len(new)]
              IN /\ Len(new) = Len(old) + 1
                 /\ \A i \in 1..Len(old) : new[i].no = old[i].no /\ r.no > old[i].no
                 /\ r.no = 1 \/ \E i \in 1..Len(old) : old[i].no = r.no - 1
                 /\ old = <<>> => r.no = 1
                 /\ ~r.d1 /\ ~r.d2 /\ r.sig = NaN
                 /\ IsTrimOf(r.name, op[s].name)
                 /\ IsTrimOf(r.district, op[s].district)
                 /\ IsTrimOf(r.province, op[s].province)
                 /\ IF Blank(op[s].coop) THEN r.coop = NaN
                    ELSE IsTrimOf(r.coop, op[s].coop)
         /\ (pc[s] = "save_rel" /\ pc'[s] = "done") =>
              result'[s].status = "returned" /\ result'[s].ok]_vars

\* C12 witness: a call whose fields carried blanks has returned success with
\* number 2, and the store holds two records.
C12_SecondRegistered ==
  \E s \in Sessions :
    /\ pc[s] = "done" /\ op[s].kind = "register"
    /\ result[s].status = "returned" /\ result[s].ok
    /\ op[s].name # Strip(op[s].name) /\ ~Blank(op[s].coop)
    /\ result[s].added # <<>> /\ result[s].added[1].no = 2
    /\ file.kind = "table" /\ Len(file.rows) = 2

\* a record numbered n is in the table
Present(rows, n) == \E i \in 1..Len(rows) : rows[i].no = n

\* the record numbered n has the flag of the day set
DayFlagSet(rows, n, day) ==
  \E i \in 1..Len(rows) :
    rows[i].no = n /\ ((day = 1 /\ rows[i].d1) \/ (day = 2 /\ rows[i].d2))

\* what the k-th requested number counts as, given the table as loaded and
\* the numbers requested before it
Class(rows, ids, day, k) ==
  IF ~Present(rows, ids[k]) THEN "not_found"
  ELSE IF DayFlagSet(rows, ids[k], day) \/ \E j \in 1..(k - 1) : ids[j] = ids[k]
       THEN "already"
       ELSE "updated"

HowMany(rows, ids, day, c) ==
  Cardinality({k \in 1..Len(ids) : Class(rows, ids, day, k) = c})

\* C13: checkin_bulk counts each requested number as not-found when no
\* record has it, as already when its record's flag of the day is set in the
\* loaded table or the number was requested earlier in the list, and as
\* updated otherwise; the counts sum to the length of the list, and the table
\* it goes on to save differs from the loaded one in exactly the day's flag
\* of the requested records, now true.
C13_CheckinClassifies ==
  [][\A s \in Sessions :
       (op[s].kind = "checkin" /\ pc[s] = "decide" /\ pc'[s] # "decide") =>
         LET ids == op[s].ids
             day == op[s].day
             c == result'[s].counts
         IN /\ c = <<HowMany(df[s], ids, day, "updated"),
                      HowMany(df[s], ids, day, "already"),
                      HowMany(df[s], ids, day, "not_found")>>
            /\ c[1] + c[2] + c[3] = Len(ids)
            /\ pc'[s] = "save_acq" =>
                 /\ Len(df'[s]) = Len(df[s])
                 /\ \A i \in 1..Len(df[s]) :
                      LET asked == \E k \in 1..Len(ids) : ids[k] = df[s][i].no
                      IN df'[s][i] =
                           [df[s][i] EXCEPT
                              !.d1 = @ \/ (day = 1 /\ asked),
                              !.d2 = @ \/ (day = 2 /\ asked)]]_vars

\* C13 witness: checkin_bulk([1, 2, 9, 1], 1) on a store where record 1 had
\* no flag and record 2 had its day-1 flag has returned (1, 2, 1), and record
\* 1 is stored with the flag.
C13_RepeatedNumberCounted ==
  \E s \in Sessions :
    /\ pc[s] = "done" /\ op[s].kind = "checkin"
    /\ op[s].ids = <<1, 2, 9, 1>> /\ op[s].day = 1
    /\ result[s].status = "returned" /\ result[s].counts = <<1, 2, 1>>
    /\ DayFlagSet(file.rows, 1, 1)

InSave(p) == p \in {"save_acq", "save_write", "save_rel", "save_err"}

\* C14: checkin_bulk goes on to its save exactly when its updated count is
\* above 0 and otherwise returns without one; a call enters save_df only
\* from the end of its loop and leaves it only by returning, so it saves at
\* most once; and the file is written only by a session inside save_df.
C14_SaveOnlyIfUpdated ==
  [][/\ \A s \in Sessions :
          op[s].kind = "checkin" =>
            /\ (pc[s] = "decide" /\ pc'[s] # "decide") =>
                 IF result'[s].counts[1] > 0
                 THEN pc'[s] = "save_acq"
                 ELSE pc'[s] = "done" /\ result'[s].status = "returned"
            /\ (InSave(pc'[s]) /\ ~InSave(pc[s])) => pc[s] = "decide"
            /\ (InSave(pc[s]) /\ ~InSave(pc'[s])) => pc'[s] = "done"
            /\ InSave(pc[s]) => result[s].counts[1] > 0
     /\ file' # file => \E s \in Sessions : pc[s] = "save_write"]_vars

\* C14 witness: a call whose numbers were all not found or already flagged
\* has returned its counts, and the store is the table it was.
C14_AllSkippedReturned ==
  \E s \in Sessions :
    /\ pc[s] = "done" /\ op[s].kind = "checkin" /\ op[s].ids = <<2, 9>>
    /\ result[s].status = "returned" /\ result[s].counts = <<0, 1, 1>>
    /\ file \in CheckinStores /\ file.kind = "table"

\* C15: a checkin_bulk call with a day other than 1 or 2 is over in one step
\* that raises: no counts, and neither the lock nor the file nor any table is
\* touched.
C15_BadDayRaises ==
  [][\A s \in Sessions : \A ids \in CheckinIds : \A day \in DayInputs :
       (day # 1 /\ day # 2 /\ StartCheckin(s, ids, day))
       => /\ pc'[s] = "done"
          /\ result'[s].status = "raised" /\ result'[s].counts = <<0, 0, 0>>
          /\ file' = file /\ lock' = lock /\ df' = df]_vars

\* C15 witness: checkin_bulk([1, 2, 9], 3) has raised and records 1 and 2
\* are stored as they were.
C15_DayThreeRaised ==
  \E s \in Sessions :
    /\ pc[s] = "done" /\ op[s].kind = "checkin"
    /\ op[s].ids = <<1, 2, 9>> /\ op[s].day = 3
    /\ result[s].status = "raised"
    /\ file \in CheckinStores /\ file.kind = "table"

\* a cell of a sheet with nothing in it: missing, or blanks only
EmptyCell(c) == c = NaN \/ Blank(c)

\* the k-th row of the sheet has a reason to be skipped: an empty name or
\* district, an earlier row of the sheet with its key, or a stored record
\* with its key
SkipReason(batch, k, stored) ==
  \/ EmptyCell(batch[k].name) \/ EmptyCell(batch[k].district)
  \/ \E j \in 1..(k - 1) : StoredKey(batch[j]) = StoredKey(batch[k])
  \/ RowsWithKey(stored, StoredKey(batch[k])) # {}

FromSheet(a, batch, k) ==
  /\ a.name = batch[k].name /\ a.district = batch[k].district
  /\ a.province = batch[k].province

\* C17: with one call run after the other, the save of import_batch writes
\* the records that were stored, unchanged, followed by the added rows; each
\* added row is the first row of the sheet with its identity key, and no
\* stored record had that key.
C17_ImportSkipsDuplicates ==
  [][\A s \in Sessions :
       (op[s].kind = "import" /\ pc[s] = "save_write" /\ pc'[s] = "save_rel") =>
         LET old == file.rows
             new == file'.rows
             batch == op[s].batch
             added == result[s].added
         IN /\ \A i \in 1..Len(old) : i <= Len(new) /\ new[i] = old[i]
            /\ \A i \in 1..Len(added) :
                 /\ RowsWithKey(old, StoredKey(added[i])) = {}
                 /\ \E k \in 1..Len(batch) :
                      /\ FromSheet(added[i], batch, k)
                      /\ \A j \in 1..(k - 1) :
                           StoredKey(batch[j]) # StoredKey(batch[k])
            /\ \A i, j \in 1..Len(added) :
                 i # j => StoredKey(added[i]) # StoredKey(added[j])]_vars

\* the largest number of a table, 0 for a table without rows
Largest(rows) ==
  IF rows = <<>> THEN 0
  ELSE CHOOSE n \in {rows[i].no : i \in 1..Len(rows)} :
         \A i \in 1..Len(rows) : rows[i].no <= n

\* C18: the rows import_batch adds are numbered max + 1, max + 2, ... in the
\* order of the sheet, max being the largest number of the table it loaded
\* (0 for none), whatever numbers the sheet gave them.
C18_ImportNumbersFollowMax ==
  [][\A s \in Sessions :
       (op[s].kind = "import" /\ pc[s] = "decide" /\ pc'[s] # "decide") =>
         LET batch == op[s].batch
             added == result'[s].added
         IN /\ \A i \in 1..Len(added) : added[i].no = Largest(df[s]) + i
            /\ \A i, j \in 1..Len(added) :
                 i < j => \E p, q \in 1..Len(batch) :
                            /\ p < q
                            /\ FromSheet(added[i], batch, p)
                            /\ FromSheet(added[j], batch, q)
            /\ pc'[s] = "save_acq" =>
                 df'[s] = df[s] \o added /\ added # <<>>]_vars

\* C18 witness: the three-row sheet, whose rows carry the numbers 7, 7, 1,
\* was imported into a store whose largest number was 1: its rows "A " and
\* "b" are stored as records 2 and 3.
C18_NumberedTwoThree ==
  \E s \in Sessions :
    /\ pc[s] = "done" /\ op[s].kind = "import" /\ op[s].batch = SheetTwoAlike
    /\ result[s].status = "returned" /\ Len(result[s].added) = 2
    /\ result[s].added[1].no = 2 /\ result[s].added[1].name = <<"A", " ">>
    /\ result[s].added[2].no = 3 /\ result[s].added[2].name = <<"b">>
    /\ file.kind = "table" /\ Len(file.rows) = 3 /\ file.rows[3].no = 3

\* C19: an import_batch call that has no row left to add returns (0,
\* skipped) with skipped the number of rows of the sheet, in a step that
\* touches neither the lock nor the file, and is never inside save_df.
C19_NothingLeftNoSave ==
  [][\A s \in Sessions :
       op[s].kind = "import" =>
         /\ (pc[s] = "decide" /\ pc'[s] # "decide" /\ result'[s].added = <<>>) =>
              /\ pc'[s] = "done" /\ result'[s].status = "returned"
              /\ result'[s].counts[1] = 0
              /\ result'[s].counts[2] = Len(op[s].batch)
              /\ file' = file /\ lock' = lock
         /\ InSave(pc[s]) => result[s].added # <<>>]_vars

\* C19 witness: a sheet with a blank name, a stored participant and that
\* participant again has been imported with the result (0, 3), and the store
\* is the table it was.
C19_AllThreeSkipped ==
  \E s \in Sessions :
    /\ pc[s] = "done" /\ op[s].kind = "import" /\ op[s].batch = SheetBlankFirst
    /\ result[s].status = "returned"
    /\ result[s].counts[1] = 0 /\ result[s].counts[2] = 3
    /\ file \in ImportStores /\ file.kind = "table"

\* the four records of scenario E: day 1 = T, T, F, F and day 2 = T, F, T, F
ScenarioE(rows) ==
  /\ Len(rows) = 4
  /\ rows[1].d1 /\ rows[2].d1 /\ ~rows[3].d1 /\ ~rows[4].d1
  /\ rows[1].d2 /\ ~rows[2].d2 /\ rows[3].d2 /\ ~rows[4].d2

\* C20: the summary of the stored table has total = its number of rows, day1
\* and day2 = the rows with that flag, both = the rows with both flags,
\* neither = the rows with no flag, so day1 + day2 - both + neither = total;
\* for the four records of scenario E it is (4, 2, 2, 1, 1).
C20_SummaryCounts ==
  \A s \in Sessions :
    (pc[s] = "done" /\ op[s].kind = "summary" /\ result[s].status = "returned") =>
      LET c == result[s].counts
          rows == file.rows
          R == 1..Len(rows)
      IN /\ c[1] = Len(rows)
         /\ c[2] = Cardinality({i \in R : rows[i].d1})
         /\ c[3] = Cardinality({i \in R : rows[i].d2})
         /\ c[4] = Cardinality({i \in R : rows[i].d1 /\ rows[i].d2})
         /\ c[5] = Cardinality({i \in R : ~rows[i].d1 /\ ~rows[i].d2})
         /\ c[2] + c[3] - c[4] + c[5] = c[1]
         /\ ScenarioE(rows) => c = <<4, 2, 2, 1, 1>>

\* C20 witness: the table of scenario E has been summarised.
C20_ScenarioESummarised ==
  \E s \in Sessions :
    /\ pc[s] = "done" /\ op[s].kind = "summary" /\ result[s].status = "returned"
    /\ ScenarioE(file.rows)
    /\ result[s].counts = <<4, 2, 2, 1, 1>>

\* ---- C21, C22, C29: ensure_schema
\* the cells of column c of a table
Column(T, c) == T.data[c]

Flags == {"Day1_Attended", "Day2_Attended"}

\* C21: normalising a normalised table changes nothing: whatever table
\* ensure_schema was given, and whenever the second call is made, the second
\* call returns the table the first call returned.
C21_NormalizeIdempotent ==
  \A s \in Sessions :
    (pc[s] = "done" /\ op[s].kind = "ensure_schema") => result[s].added = df[s]

\* a table without the registration column, with rows, normalised twice
C21_StampedOnceOnly ==
  /\ pc[1] = "done"
  /\ op[1].kind = "ensure_schema"
  /\ "Registered_On" \notin DOMAIN op[1].batch.data
  /\ NRows(op[1].batch) > 0
  /\ Column(df[1], "Registered_On")[1] = Text(<<"t", "1">>)
  /\ Column(result[1].added, "Registered_On")[1] = Text(<<"t", "1">>)

\* C22: whatever table is handed in, the table that load returns and save
\* writes has exactly the canonical columns in their order, true/false in
\* both attendance columns and a whole number or nothing in every NO. cell.
C22_CanonicalShape ==
  \A s \in Sessions :
    (pc[s] \in {"normalized", "done"} /\ op[s].kind = "ensure_schema") =>
      /\ df[s].order = Canonical
      /\ DOMAIN df[s].data = Range(Canonical)
      /\ \A c \in Flags : \A i \in 1..NRows(df[s]) : Column(df[s], c)[i].t = "bool"
      /\ \A i \in 1..NRows(df[s]) : Column(df[s], "NO.")[i].t \in {"int", "nan"}

\* what the attendance rule calls true: the boolean, or one of the three texts
MeansTrue(c) ==
  \/ c = Bool(TRUE)
  \/ c.t = "text" /\ Lower(Strip(c.v)) \in {<<"t", "r", "u", "e">>, <<"y", "e", "s">>, <<"1">>}

\* C29: an attendance cell becomes true exactly when it holds the boolean true
\* or one of the texts "true", "yes", "1" (any case, blanks around it), and
\* false for everything else: a missing cell, another text, another number.
\* (The number 1 is left open.)
C29_AttendanceValues ==
  \A s \in Sessions :
    (pc[s] \in {"normalized", "done"} /\ op[s].kind = "ensure_schema") =>
      \A c \in Flags \cap DOMAIN op[s].batch.data :
        \A i \in 1..NRows(op[s].batch) :
          LET in == Column(op[s].batch, c)[i] IN
          in # Whole(1) => (Column(df[s], c)[i] = Bool(TRUE) <=> MeansTrue(in))

\* ---- C23: reading leaves the store alone
\* C23: no step of get_df, filter_df, get_summary or build_report_bytes
\* changes the stored file, while other sessions may be registering; in
\* particular a load that finds no file leaves none behind, and none of these
\* operations ever enters save_df.
C23_ReadsLeaveTheStore ==
  [][\A s \in Sessions :
       (pc'[s] # pc[s] /\ op'[s].kind \in ReadKinds) =>
         /\ file' = file
         /\ pc'[s] \notin {"save_acq", "save_write", "save_rel", "save_err"}]_vars

\* a filter and a report have both returned and there is still no file
C23_StillNoFile ==
  /\ \E s \in Sessions : pc[s] = "done" /\ op[s].kind = "filter" /\ result[s].status = "returned"
  /\ \E s \in Sessions : pc[s] = "done" /\ op[s].kind = "report" /\ result[s].status = "returned"
  /\ file.kind = "none"

\* ---- C24, C25: the lock
Waiting(s) == pc[s] \in {"load_acq", "save_acq"}

Inside(s) ==
  pc[s] \in {"load_read", "load_rel", "load_err", "save_write", "save_rel", "save_err"}

C25_LockFreeOutside ==
  /\ (\A s \in Sessions : ~Inside(s)) => lock = 0
  /\ lock # 0 => Inside(lock)

\* a save has failed halfway, the load of the next operation has failed on
\* the broken file, both calls have raised, and the lock is free
C25_BothErrorsLeftItFree ==
  /\ \A s \in Sessions : pc[s] = "done" /\ result[s].status = "raised"
  /\ file.kind = "partial"
  /\ opsLeft = 0
  /\ lock = 0

\* ---- C26: import and empty names
\* the rows of the sheet without a name or without a district
EmptyRows(batch) ==
  {k \in 1..Len(batch) : EmptyCell(batch[k].name) \/ EmptyCell(batch[k].district)}

\* C26: import_batch adds no row whose name or district is a missing cell or
\* blanks only, and the skipped count it returns covers every such row of
\* the sheet.
C26_EmptyRowsSkipped ==
  [][\A s \in Sessions :
       (op[s].kind = "import" /\ pc[s] = "decide" /\ pc'[s] # "decide") =>
         /\ \A i \in 1..Len(result'[s].added) :
              /\ ~EmptyCell(result'[s].added[i].name)
              /\ ~EmptyCell(result'[s].added[i].district)
         /\ result'[s].counts[2] >= Cardinality(EmptyRows(op[s].batch))]_vars

\* ---- C27: what a write may change in the stored records
\* the two records differ at most in the flag of the day, which is not cleared
SameButFlag(old, new, day) ==
  /\ [new EXCEPT !.d1 = FALSE, !.d2 = FALSE] = [old EXCEPT !.d1 = FALSE, !.d2 = FALSE]
  /\ IF day = 1 THEN new.d2 = old.d2 /\ (old.d1 => new.d1)
     ELSE new.d1 = old.d1 /\ (old.d2 => new.d2)

\* C27: with one call run after the other, the save of register and of
\* import_batch writes every stored record back exactly as it was (in its
\* place, new rows after them), and the save of checkin_bulk writes the same
\* records, none added or removed, changed at most in the flag of the
\* requested day, from false to true, on records whose number was requested.
C27_WritesKeepTheRecords ==
  [][\A s \in Sessions :
       (pc[s] = "save_write" /\ pc'[s] = "save_rel") =>
         LET old == file.rows
             new == file'.rows
         IN /\ op[s].kind \in {"register", "import"} =>
                 \A i \in 1..Len(old) : i <= Len(new) /\ new[i] = old[i]
            /\ op[s].kind = "checkin" =>
                 /\ Len(new) = Len(old)
                 /\ \A i \in 1..Len(old) :
                      /\ SameButFlag(old[i], new[i], op[s].day)
                      /\ new[i] # old[i] =>
                           \E k \in 1..Len(op[s].ids) : op[s].ids[k] = old[i].no]_vars

\* ---- C28: the order of the ids
\* the lists that hold the entries of q in any order
RECURSIVE Orders(_)
Orders(I) ==
  IF I = {} THEN {<<>>} ELSE UNION {{<<i>> \o o : o \in Orders(I \ {i})} : i \in I}

Perms(q) == {[k \in 1..Len(q) |-> q[o[k]]] : o \in Orders(1..Len(q))}

\* C28: checkin_bulk gives the same counts and the same table to store for
\* every order of the ids it is called with: what a call returns and goes on
\* to save is what the loop gives on any permutation of its list.
C28_OrderOfIdsIrrelevant ==
  [][\A s \in Sessions :
       (op[s].kind = "checkin" /\ pc[s] = "decide" /\ pc'[s] # "decide") =>
         \A p \in Perms(op[s].ids) :
           LET r == CheckinLoop(df[s], p, op[s].day, <<0, 0, 0>>) IN
           /\ result'[s].counts = r.counts
           /\ IF pc'[s] = "save_acq" THEN df'[s] = r.rows ELSE r.rows = df[s]]_vars

\* checkin_bulk([1, 2, 9], 2) has flagged both records for day 2
C28_BothFlaggedDayTwo ==
  \E s \in Sessions :
    /\ pc[s] = "done" /\ op[s].kind = "checkin" /\ result[s].status = "returned"
    /\ op[s].ids = <<1, 2, 9>> /\ op[s].day = 2
    /\ result[s].counts = <<2, 0, 1>>
    /\ file.kind = "table" /\ \A i \in 1..Len(file.rows) : file.rows[i].d2

\* ---- C30: the dedup pass
\* the normalized name and district of a stored record
PairOf(r) == <<Lower(Strip(AsStr(r.name))), Lower(Strip(AsStr(r.district)))>>

\* the stored rows that are the first with their pair
Firsts(rows) ==
  {i \in 1..Len(rows) : \A j \in 1..(i - 1) : PairOf(rows[j]) # PairOf(rows[i])}

\* the numbers of the rows at the positions I, in row order
NumbersAt(rows, I) ==
  LET F[i \in 0..Len(rows)] ==
        IF i = 0 THEN <<>>
        ELSE IF i \in I THEN Append(F[i - 1], rows[i].no) ELSE F[i - 1]
  IN F[Len(rows)]

\* C30: the dedup pass, run on its own, keeps the first stored row of each
\* normalized (name, district) pair and no other; it returns (kept, removed)
\* with kept + removed the number of stored rows; it saves exactly when
\* removed is above 0; and the table it saves holds no pair twice.
C30_DedupKeepsFirsts ==
  [][\A s \in Sessions :
       op[s].kind = "dedupe" =>
         /\ (pc[s] = "decide" /\ pc'[s] # "decide") =>
              LET old == file.rows
                  kept == result'[s].counts[1]
                  removed == result'[s].counts[2]
              IN /\ kept + removed = Len(old)
                 /\ kept = Cardinality(Firsts(old))
                 /\ pc'[s] = "save_acq" <=> removed > 0
                 /\ pc'[s] = "save_acq" =>
                      [k \in 1..Len(df'[s]) |-> df'[s][k].no] = NumbersAt(old, Firsts(old))
         /\ (pc[s] = "save_write" /\ pc'[s] = "save_rel") =>
              \A i, j \in 1..Len(file'.rows) :
                i # j => PairOf(file'.rows[i]) # PairOf(file'.rows[j])]_vars

\* ---- C31: filter
\* the criterion, trimmed and in lower case, is a part of the field's text
OccursIn(criterion, field) ==
  LET q == Lower(Strip(criterion)) IN
  /\ field # NaN
  /\ \E i \in 0..(Len(field) - Len(q)) : Lower(SubSeq(field, i + 1, i + Len(q))) = q

\* the row meets every criterion that is not blank
Wanted(r, q) ==
  /\ ~Blank(q.name) => OccursIn(q.name, r.name)
  /\ ~Blank(q.district) => OccursIn(q.district, r.district)
  /\ ~Blank(q.coop) => OccursIn(q.coop, r.coop)

\* C31: filter returns exactly the rows of the table in which every
\* non-blank criterion occurs, ignoring case and the blanks around the
\* criterion, as a part of the field it is for (all rows when the three are
\* blank), in ascending order of their numbers, rows with the same number in
\* the order the table had them.
C31_FilterReturnsMatches ==
  [][\A s \in Sessions :
       (op[s].kind = "filter" /\ pc[s] = "decide" /\ pc'[s] = "done") =>
         LET rows == df[s]
             out == result'[s].added
             keep == {i \in 1..Len(rows) : Wanted(rows[i], op[s])}
         IN \E f \in [1..Len(out) -> keep] :
              /\ \A i \in keep : \E k \in 1..Len(out) : f[k] = i
              /\ \A k \in 1..Len(out) : out[k] = rows[f[k]]
              /\ \A k, l \in 1..Len(out) :
                   k < l => \/ rows[f[k]].no < rows[f[l]].no
                            \/ rows[f[k]].no = rows[f[l]].no /\ f[k] < f[l]]_vars

====
